---- MODULE Spec2Model ----
(***************************************************************************)
(* State-machine model of bin/cygwin_tty.py: the raw-mode bridge between   *)
(* /dev/tty and the standard streams of the process.                       *)
(*                                                                         *)
(* The program counter pc names the source line about to be executed.      *)
(* The terminal device, standard input and signals are the environment.    *)
(* System calls are atomic and either complete or raise; os.write writes   *)
(* the whole buffer when it completes.                                     *)
(***************************************************************************)
EXTENDS Integers, Sequences, FiniteSets, TLC

(* ---------------------------------------------------------------- bounds *)

\* number of bursts of input the terminal delivers in one run
MaxDeliver == 2

\* number of bytes the parent writes to standard input in one run
MaxStdinBytes == 2

\* number of signals delivered to the process in one run
MaxSignals == 1

(* ------------------------------------------------------------- constants *)

STDIN == 0

STDOUT == 1

\* the descriptor os.open returns for /dev/tty (lowest free one)
fd == 3

\* the size argument of os.read(fd, 64)
ReadMax == 64

\* the termination byte b'\x00'
NUL == 0

\* numbers up to 2^32 - 1 are held as two 16-bit halves: hi * 2^16 + lo
Half == 65536

W(hi, lo) == <<hi, lo>>

(* ------------------------------------------------------ environment data *)

\* terminal geometries (columns, lines)
Geometries == { <<W(0, 80), W(0, 24)>>,
                <<W(Half - 1, Half - 1), W(1, 258)>> }

\* flag words are sets of flag names; x & ~m is x \ m
IFlagWords == { {"ICRNL", "IXON"} }

LFlagWords == { {"ECHO", "ICANON", "ISIG", "IEXTEN"}, {"ECHO", "IEXTEN"} }

\* the 7-element list tcgetattr returns:
\* [iflag, oflag, cflag, lflag, ispeed, ospeed, cc]
TermAttrs == { <<i, {"OPOST"}, {"CS8"}, l, 38400, 38400, "cc">> :
                 i \in IFlagWords, l \in LFlagWords }

\* a burst longer than one read can take
LongBurst == [i \in 1..(ReadMax + 1) |-> i]

\* what the terminal can deliver at once
Bursts == { <<NUL, 65>>, LongBurst }

\* what the parent can write to standard input at once
StdinBursts == { <<200>>, <<201, 202>> }

(* ------------------------------------------------------- pure functions *)

Min(a, b) == IF a < b THEN a ELSE b

\* mutant: '>L', most significant byte first
LE32_BigEndian(n) ==
  << n[1] \div 256, n[1] % 256, n[2] \div 256, n[2] % 256 >>

\* one '<L' field of struct.pack: 4 bytes, least significant first
LE32(n) == << n[2] % 256, n[2] \div 256, n[1] % 256, n[1] \div 256 >>

\* struct.pack('<LL', columns, lines)
Pack(sz) == LE32(sz[1]) \o LE32(sz[2])

\* mutant: ISIG is left out of the mask of line 21
RawOf_KeepsISIG(a) ==
  [a EXCEPT ![1] = a[1] \ {"ICRNL"}, ![4] = a[4] \ {"ECHO", "ICANON"}]

\* new = list(old); new[0] &= ~ICRNL; new[3] &= ~(ECHO | ICANON | ISIG)
RawOf(a) == [a EXCEPT ![1] = a[1] \ {"ICRNL"},
                      ![4] = a[4] \ {"ECHO", "ICANON", "ISIG"}]

RECURSIVE Flatten(_)
Flatten(ws) == IF ws = <<>> THEN <<>> ELSE Head(ws) \o Flatten(Tail(ws))

(* ----------------------------------------------------------------- state *)

VARIABLES
  pc,          \* source line about to run, or "done" / "aborted" / "killed"
  exc,         \* an exception is propagating out of the try block
  fdOpen,      \* the descriptor of /dev/tty is open in this process
  size,        \* local size, <<>> while unassigned
  old,         \* local old, <<>> while unassigned
  new,         \* local new, <<>> while unassigned
  r,           \* local r: the readable set of the last select
  buf,         \* local buf
  out,         \* standard output: the sequence of completed writes
  termSize,    \* geometry of the terminal
  termAttrs,   \* attributes of the terminal device
  ttyBuf,      \* terminal input received and not yet read
  ttyState,    \* "open", "eof" (hung up) or "err" (reads raise)
  stdinBuf,    \* bytes pending on standard input
  stdinClosed, \* the parent closed standard input
  \* history
  attrs0,      \* terminal attributes when the process started
  exitVia,     \* how the loop or the process was left
  ttyLog,      \* every byte os.read returned
  stdinSent,   \* every byte the parent wrote to standard input
  handled,     \* branches taken since the last select
  hdrWrites,   \* number of header writes
  setCalls,    \* arguments of the completed tcsetattr calls, in order
  delivered,   \* bursts delivered by the terminal
  stdinFirst,  \* standard input became ready with the loop running and the
               \* terminal open
  sigCount     \* signals delivered

vars == << pc, exc, fdOpen, size, old, new, r, buf, out, termSize, termAttrs,
           ttyBuf, ttyState, stdinBuf, stdinClosed, attrs0, exitVia, ttyLog, stdinSent, handled, hdrWrites, setCalls,
           delivered, stdinFirst, sigCount >>

progVars == << pc, exc, fdOpen, size, old, new, r, buf, out, termAttrs,
               exitVia, ttyLog, handled, hdrWrites, setCalls >>

envVars == << termSize, ttyBuf, ttyState, stdinBuf, stdinClosed, attrs0, stdinSent, delivered, stdinFirst, sigCount >>

Terminated == pc \in {"done", "aborted", "killed"}

\* readiness as select sees it
TtyReadable == ttyBuf # <<>> \/ ttyState # "open"

StdinReadable == stdinBuf # <<>> \/ stdinClosed

Ready == (IF StdinReadable THEN {STDIN} ELSE {})
           \cup (IF TtyReadable THEN {fd} ELSE {})

Init ==
  /\ pc = "L13"
  /\ exc = FALSE
  /\ fdOpen = FALSE
  /\ size = <<>>
  /\ old = <<>>
  /\ new = <<>>
  /\ r = {}
  /\ buf = <<>>
  /\ out = <<>>
  /\ termSize \in Geometries
  /\ termAttrs \in TermAttrs
  /\ attrs0 = termAttrs
  /\ ttyBuf = <<>>
  /\ ttyState = "open"
  /\ stdinBuf = <<>>
  /\ stdinClosed = FALSE
  /\ exitVia = "none"
  /\ ttyLog = <<>>
  /\ stdinSent = <<>>
  /\ handled = <<>>
  /\ hdrWrites = 0
  /\ setCalls = <<>>
  /\ delivered = 0
  /\ stdinFirst = FALSE
  /\ sigCount = 0


(* ------------------------------------------------------ startup, 13 - 21 *)

\* fd = os.open('/dev/tty', os.O_RDONLY)
OpenTty ==
  /\ pc = "L13"
  /\ fdOpen' = TRUE
  /\ pc' = "L15"
  /\ UNCHANGED << exc, size, old, new, r, buf, out, termAttrs, exitVia, ttyLog, handled, hdrWrites, setCalls >>
  /\ UNCHANGED envVars

\* size = os.get_terminal_size(fd)
GetTerminalSize ==
  /\ pc = "L15"
  /\ size' = termSize
  /\ pc' = "L16"
  /\ UNCHANGED << exc, fdOpen, old, new, r, buf, out, termAttrs, exitVia, ttyLog, handled, hdrWrites, setCalls >>
  /\ UNCHANGED envVars

\* mutant: the two fields are written by two writes of 4 bytes
WriteHeader_Split ==
  /\ pc = "L16"
  /\ out' = out \o << LE32(size[1]), LE32(size[2]) >>
  /\ hdrWrites' = hdrWrites + 1
  /\ pc' = "L18"
  /\ UNCHANGED << exc, fdOpen, size, old, new, r, buf, termAttrs, exitVia,
                  ttyLog, handled, setCalls >>
  /\ UNCHANGED envVars

\* os.write(STDOUT, struct.pack('<LL', size.columns, size.lines))
WriteHeader ==
  /\ pc = "L16"
  /\ out' = Append(out, Pack(size))
  /\ hdrWrites' = hdrWrites + 1
  /\ pc' = "L18"
  /\ UNCHANGED << exc, fdOpen, size, old, new, r, buf, termAttrs, exitVia, ttyLog, handled, setCalls >>
  /\ UNCHANGED envVars

\* old = termios.tcgetattr(fd)
TcGetAttr ==
  /\ pc = "L18"
  /\ old' = termAttrs
  /\ pc' = "L19"
  /\ UNCHANGED << exc, fdOpen, size, new, r, buf, out, termAttrs, exitVia, ttyLog, handled, hdrWrites, setCalls >>
  /\ UNCHANGED envVars

\* new = list(old) with ICRNL, ECHO, ICANON and ISIG cleared
MakeNew ==
  /\ pc = "L19"
  /\ new' = RawOf(old)
  /\ pc' = "L24"
  /\ UNCHANGED << exc, fdOpen, size, old, r, buf, out, termAttrs, exitVia, ttyLog, handled, hdrWrites, setCalls >>
  /\ UNCHANGED envVars

(* ------------------------------------------------- the try block, 23 - 38 *)

\* mutant: tcsetattr(fd, termios.TCSAFLUSH, old) at line 24
SetRaw_AppliesOld ==
  /\ pc = "L24"
  /\ termAttrs' = old
  /\ setCalls' = Append(setCalls, old)
  /\ ttyBuf' = <<>>
  /\ pc' = "L27"
  /\ UNCHANGED << exc, fdOpen, size, old, new, r, buf, out, exitVia, ttyLog,
                  handled, hdrWrites >>
  /\ UNCHANGED << termSize, ttyState, stdinBuf, stdinClosed, attrs0,
                  stdinSent, delivered, stdinFirst, sigCount >>

\* termios.tcsetattr(fd, termios.TCSAFLUSH, new): applies new and discards
\* the input received and not yet read
SetRaw ==
  /\ pc = "L24"
  /\ termAttrs' = new
  /\ setCalls' = Append(setCalls, new)
  /\ ttyBuf' = <<>>
  /\ pc' = "L27"
  /\ UNCHANGED << exc, fdOpen, size, old, new, r, buf, out, exitVia, ttyLog,
                  handled, hdrWrites >>
  /\ UNCHANGED << termSize, ttyState, stdinBuf, stdinClosed, attrs0,
                  stdinSent, delivered, stdinFirst, sigCount >>

\* mutant: select.select([STDIN], [], []), the terminal is not watched
Select_StdinOnly ==
  /\ pc = "L27"
  /\ Ready \cap {STDIN} # {}
  /\ r' = Ready \cap {STDIN}
  /\ handled' = <<>>
  /\ pc' = "L28"
  /\ UNCHANGED << exc, fdOpen, size, old, new, buf, out, termAttrs, exitVia,
                  ttyLog, hdrWrites, setCalls >>
  /\ UNCHANGED envVars

\* r, _, _ = select.select([STDIN, fd], [], []): blocks until one is readable
Select ==
  /\ pc = "L27"
  /\ Ready # {}
  /\ r' = Ready
  /\ handled' = <<>>
  /\ pc' = "L28"
  /\ UNCHANGED << exc, fdOpen, size, old, new, buf, out, termAttrs, exitVia, ttyLog, hdrWrites, setCalls >>
  /\ UNCHANGED envVars

\* if fd in r: false
SkipTty ==
  /\ pc = "L28"
  /\ fd \notin r
  /\ pc' = "L36"
  /\ UNCHANGED << exc, fdOpen, size, old, new, r, buf, out, termAttrs, exitVia, ttyLog, handled, hdrWrites, setCalls >>
  /\ UNCHANGED envVars

\* mutant: os.read(fd, 65)
ReadData_Oversize ==
  /\ pc = "L28"
  /\ fd \in r
  /\ ttyState # "err"
  /\ ttyBuf # <<>>
  /\ LET n == Min(Len(ttyBuf), ReadMax + 1)
     IN  /\ buf' = SubSeq(ttyBuf, 1, n)
         /\ ttyBuf' = SubSeq(ttyBuf, n + 1, Len(ttyBuf))
         /\ ttyLog' = ttyLog \o SubSeq(ttyBuf, 1, n)
  /\ handled' = Append(handled, "tty")
  /\ pc' = "L35"
  /\ UNCHANGED << exc, fdOpen, size, old, new, r, out, termAttrs, exitVia,
                  hdrWrites, setCalls >>
  /\ UNCHANGED << termSize, ttyState, stdinBuf, stdinClosed, attrs0,
                  stdinSent, delivered, stdinFirst, sigCount >>

\* buf = os.read(fd, 64) returns data: the pending input, 64 bytes at most
ReadData ==
  /\ pc = "L28"
  /\ fd \in r
  /\ ttyState # "err"
  /\ ttyBuf # <<>>
  /\ LET n == Min(Len(ttyBuf), ReadMax)
     IN  /\ buf' = SubSeq(ttyBuf, 1, n)
         /\ ttyBuf' = SubSeq(ttyBuf, n + 1, Len(ttyBuf))
         /\ ttyLog' = ttyLog \o SubSeq(ttyBuf, 1, n)
  /\ handled' = Append(handled, "tty")
  /\ pc' = "L35"
  /\ UNCHANGED << exc, fdOpen, size, old, new, r, out, termAttrs, exitVia, hdrWrites, setCalls >>
  /\ UNCHANGED << termSize, ttyState, stdinBuf, stdinClosed, attrs0,
                  stdinSent, delivered, stdinFirst, sigCount >>

\* mutant: the termination byte is written on end-of-stream as well
ReadEOF_WritesNul ==
  /\ pc = "L28"
  /\ fd \in r
  /\ ttyState = "eof"
  /\ ttyBuf = <<>>
  /\ buf' = <<>>
  /\ out' = Append(out, <<NUL>>)
  /\ handled' = Append(handled, "tty")
  /\ exitVia' = "eof"
  /\ pc' = "L40"
  /\ UNCHANGED << exc, fdOpen, size, old, new, r, termAttrs, ttyLog,
                  hdrWrites, setCalls >>
  /\ UNCHANGED envVars

\* buf = os.read(fd, 64) returns b'': if len(buf) == 0: break
ReadEOF ==
  /\ pc = "L28"
  /\ fd \in r
  /\ ttyState = "eof"
  /\ ttyBuf = <<>>
  /\ buf' = <<>>
  /\ handled' = Append(handled, "tty")
  /\ exitVia' = "eof"
  /\ pc' = "L40"
  /\ UNCHANGED << exc, fdOpen, size, old, new, r, out, termAttrs,
                  ttyLog, hdrWrites, setCalls >>
  /\ UNCHANGED envVars

\* mutant: no except clause around os.read, the error propagates
ReadErr_Propagates ==
  /\ pc = "L28"
  /\ fd \in r
  /\ ttyState = "err"
  /\ handled' = Append(handled, "tty")
  /\ exitVia' = "readerr"
  /\ exc' = TRUE
  /\ pc' = "L40"
  /\ UNCHANGED << fdOpen, size, old, new, r, buf, out, termAttrs, ttyLog,
                  hdrWrites, setCalls >>
  /\ UNCHANGED envVars

\* os.read(fd, 64) raises: except: break
ReadErr ==
  /\ pc = "L28"
  /\ fd \in r
  /\ ttyState = "err"
  /\ handled' = Append(handled, "tty")
  /\ exitVia' = "readerr"
  /\ pc' = "L40"
  /\ UNCHANGED << exc, fdOpen, size, old, new, r, buf, out, termAttrs, ttyLog, hdrWrites, setCalls >>
  /\ UNCHANGED envVars

\* mutant: continue after the write, the standard input test is skipped
WriteBuf_Continue ==
  /\ pc = "L35"
  /\ out' = Append(out, buf)
  /\ pc' = "L27"
  /\ UNCHANGED << exc, fdOpen, size, old, new, r, buf, termAttrs, exitVia,
                  ttyLog, handled, hdrWrites, setCalls >>
  /\ UNCHANGED envVars

\* mutant: os.write(STDOUT, buf[:63])
WriteBuf_Truncates ==
  /\ pc = "L35"
  /\ out' = Append(out, SubSeq(buf, 1, Min(Len(buf), ReadMax - 1)))
  /\ pc' = "L36"
  /\ UNCHANGED << exc, fdOpen, size, old, new, r, buf, termAttrs, exitVia,
                  ttyLog, handled, hdrWrites, setCalls >>
  /\ UNCHANGED envVars

\* os.write(STDOUT, buf)
WriteBuf ==
  /\ pc = "L35"
  /\ out' = Append(out, buf)
  /\ pc' = "L36"
  /\ UNCHANGED << exc, fdOpen, size, old, new, r, buf, termAttrs, exitVia, ttyLog, handled, hdrWrites, setCalls >>
  /\ UNCHANGED envVars

\* mutant: break without writing the termination byte
StdinBranch_NoNul ==
  /\ pc = "L36"
  /\ STDIN \in r
  /\ handled' = Append(handled, "stdin")
  /\ exitVia' = "stdin"
  /\ pc' = "L40"
  /\ UNCHANGED << exc, fdOpen, size, old, new, r, buf, out, termAttrs, ttyLog,
                  hdrWrites, setCalls >>
  /\ UNCHANGED envVars

\* mutant: standard input is read and what it holds is relayed before the
\* termination byte
StdinBranch_Echo ==
  /\ pc = "L36"
  /\ STDIN \in r
  /\ out' = (IF stdinBuf = <<>> THEN out ELSE Append(out, stdinBuf))
              \o << <<NUL>> >>
  /\ stdinBuf' = <<>>
  /\ handled' = Append(handled, "stdin")
  /\ exitVia' = "stdin"
  /\ pc' = "L40"
  /\ UNCHANGED << exc, fdOpen, size, old, new, r, buf, termAttrs, ttyLog,
                  hdrWrites, setCalls >>
  /\ UNCHANGED << termSize, ttyBuf, ttyState, stdinClosed, attrs0, stdinSent,
                  delivered, stdinFirst, sigCount >>

\* if STDIN in r: os.write(STDOUT, b'\x00'); break
StdinBranch ==
  /\ pc = "L36"
  /\ STDIN \in r
  /\ out' = Append(out, <<NUL>>)
  /\ handled' = Append(handled, "stdin")
  /\ exitVia' = "stdin"
  /\ pc' = "L40"
  /\ UNCHANGED << exc, fdOpen, size, old, new, r, buf, termAttrs,
                  ttyLog, hdrWrites, setCalls >>
  /\ UNCHANGED envVars

\* if STDIN in r: false; back to while True
LoopBack ==
  /\ pc = "L36"
  /\ STDIN \notin r
  /\ pc' = "L27"
  /\ UNCHANGED << exc, fdOpen, size, old, new, r, buf, out, termAttrs, exitVia, ttyLog, handled, hdrWrites, setCalls >>
  /\ UNCHANGED envVars

(* ------------------------------------------------------- finally, 39 - 40 *)

\* mutant: tcsetattr(fd, termios.TCSAFLUSH, new) in the finally clause
Restore_AppliesNew ==
  /\ pc = "L40"
  /\ termAttrs' = new
  /\ setCalls' = Append(setCalls, new)
  /\ ttyBuf' = <<>>
  /\ pc' = IF exc THEN "aborted" ELSE "done"
  /\ UNCHANGED << exc, fdOpen, size, old, new, r, buf, out, exitVia, ttyLog,
                  handled, hdrWrites >>
  /\ UNCHANGED << termSize, ttyState, stdinBuf, stdinClosed, attrs0,
                  stdinSent, delivered, stdinFirst, sigCount >>

\* mutant: an else clause in place of finally, skipped when an exception
\* propagates
Restore_SkippedOnException ==
  /\ pc = "L40"
  /\ termAttrs' = (IF exc THEN termAttrs ELSE old)
  /\ setCalls' = (IF exc THEN setCalls ELSE Append(setCalls, old))
  /\ ttyBuf' = (IF exc THEN ttyBuf ELSE <<>>)
  /\ pc' = IF exc THEN "aborted" ELSE "done"
  /\ UNCHANGED << exc, fdOpen, size, old, new, r, buf, out, exitVia, ttyLog,
                  handled, hdrWrites >>
  /\ UNCHANGED << termSize, ttyState, stdinBuf, stdinClosed, attrs0,
                  stdinSent, delivered, stdinFirst, sigCount >>

\* mutant: the attributes are restored at the end of the try block and again
\* in the finally clause
Restore_Twice ==
  /\ pc = "L40"
  /\ termAttrs' = old
  /\ setCalls' = setCalls \o (IF exc THEN <<old>> ELSE <<old, old>>)
  /\ ttyBuf' = <<>>
  /\ pc' = IF exc THEN "aborted" ELSE "done"
  /\ UNCHANGED << exc, fdOpen, size, old, new, r, buf, out, exitVia, ttyLog,
                  handled, hdrWrites >>
  /\ UNCHANGED << termSize, ttyState, stdinBuf, stdinClosed, attrs0,
                  stdinSent, delivered, stdinFirst, sigCount >>

\* termios.tcsetattr(fd, termios.TCSAFLUSH, old); then main returns, or the
\* propagating exception ends the process
Restore ==
  /\ pc = "L40"
  /\ termAttrs' = old
  /\ setCalls' = Append(setCalls, old)
  /\ ttyBuf' = <<>>
  /\ pc' = IF exc THEN "aborted" ELSE "done"
  /\ UNCHANGED << exc, fdOpen, size, old, new, r, buf, out, exitVia, ttyLog, handled, hdrWrites >>
  /\ UNCHANGED << termSize, ttyState, stdinBuf, stdinClosed, attrs0,
                  stdinSent, delivered, stdinFirst, sigCount >>

(* ------------------------------------------------ system calls that raise *)

\* an exception raised before the try statement ends the process
RaiseAtStartup ==
  /\ pc' = "aborted"
  /\ exc' = TRUE
  /\ exitVia' = "startup"
  /\ UNCHANGED << fdOpen, size, old, new, r, buf, out, termAttrs, ttyLog,
                  handled, hdrWrites, setCalls >>
  /\ UNCHANGED envVars

\* an exception raised inside the try block, outside the inner try, runs the
\* finally clause and then ends the process
RaiseInTry(via) ==
  /\ pc' = "L40"
  /\ exc' = TRUE
  /\ exitVia' = via
  /\ UNCHANGED << fdOpen, size, old, new, r, buf, out, termAttrs, ttyLog,
                  handled, hdrWrites, setCalls >>
  /\ UNCHANGED envVars

\* mutant: the failure of os.open is swallowed and the startup goes on
OpenFail_Ignored ==
  /\ pc = "L13"
  /\ pc' = "L15"
  /\ UNCHANGED << exc, fdOpen, size, old, new, r, buf, out, termAttrs, exitVia,
                  ttyLog, handled, hdrWrites, setCalls >>
  /\ UNCHANGED envVars

\* os.open('/dev/tty', os.O_RDONLY) raises OSError
OpenFail == pc = "L13" /\ RaiseAtStartup

\* os.get_terminal_size(fd) raises OSError
GetTerminalSizeFail == pc = "L15" /\ RaiseAtStartup

\* os.write(STDOUT, header) raises OSError: nothing is written
WriteHeaderFail == pc = "L16" /\ RaiseAtStartup

\* termios.tcgetattr(fd) raises termios.error
TcGetAttrFail == pc = "L18" /\ RaiseAtStartup

\* mutant: the raw-mode call stands before the try statement, so that its
\* failure ends the process at once
SetRawFail_BeforeTry == pc = "L24" /\ RaiseAtStartup

\* termios.tcsetattr(fd, termios.TCSAFLUSH, new) raises termios.error: the
\* attributes of the terminal are left as they were
SetRawFail == pc = "L24" /\ RaiseInTry("rawfail")

\* select.select raises
SelectFail == pc = "L27" /\ RaiseInTry("loopfail")

\* mutant: the write stands inside the inner try, whose bare except breaks
WriteBufFail_Break ==
  /\ pc = "L35"
  /\ pc' = "L40"
  /\ exitVia' = "loopfail"
  /\ UNCHANGED << exc, fdOpen, size, old, new, r, buf, out, termAttrs, ttyLog,
                  handled, hdrWrites, setCalls >>
  /\ UNCHANGED envVars

\* os.write(STDOUT, buf) raises OSError: nothing is written
WriteBufFail == pc = "L35" /\ RaiseInTry("loopfail")

\* os.write(STDOUT, b'\x00') raises OSError: nothing is written
StdinWriteFail == pc = "L36" /\ STDIN \in r /\ RaiseInTry("loopfail")

(* ----------------------------------------------------------- environment *)

\* standard input is about to become ready for the first time, with the
\* process in its loop and the terminal neither at end-of-stream nor failed
StdinBecomesReadyFirst ==
  /\ ~StdinReadable
  /\ pc \in {"L27", "L28", "L35", "L36"}
  /\ ttyState = "open"

\* the terminal delivers a burst of input
TtyInput ==
  /\ ~Terminated
  /\ ttyState = "open"
  /\ delivered < MaxDeliver
  /\ \E b \in Bursts : ttyBuf' = ttyBuf \o b
  /\ delivered' = delivered + 1
  /\ UNCHANGED << termSize, ttyState, stdinBuf, stdinClosed, attrs0,
                  stdinSent, stdinFirst, sigCount >>
  /\ UNCHANGED progVars

\* the terminal is hung up: reads return b'' once the pending input is read
TtyHangup ==
  /\ ~Terminated
  /\ ttyState = "open"
  /\ ttyState' = "eof"
  /\ UNCHANGED << termSize, ttyBuf, stdinBuf, stdinClosed, attrs0,
                  stdinSent, delivered, stdinFirst, sigCount >>
  /\ UNCHANGED progVars

\* the terminal fails: reads raise OSError
TtyFail ==
  /\ ~Terminated
  /\ ttyState = "open"
  /\ ttyState' = "err"
  /\ UNCHANGED << termSize, ttyBuf, stdinBuf, stdinClosed, attrs0,
                  stdinSent, delivered, stdinFirst, sigCount >>
  /\ UNCHANGED progVars

\* the parent writes to standard input
StdinInput ==
  /\ ~Terminated
  /\ ~stdinClosed
  /\ \E b \in StdinBursts :
       /\ Len(stdinSent) + Len(b) <= MaxStdinBytes
       /\ stdinBuf' = stdinBuf \o b
       /\ stdinSent' = stdinSent \o b
  /\ stdinFirst' = (stdinFirst \/ StdinBecomesReadyFirst)
  /\ UNCHANGED << termSize, ttyBuf, ttyState, stdinClosed, attrs0,
                  delivered, sigCount >>
  /\ UNCHANGED progVars

\* the parent closes standard input
StdinClose ==
  /\ ~Terminated
  /\ ~stdinClosed
  /\ stdinClosed' = TRUE
  /\ stdinFirst' = (stdinFirst \/ StdinBecomesReadyFirst)
  /\ UNCHANGED << termSize, ttyBuf, ttyState, stdinBuf, attrs0,
                  stdinSent, delivered, sigCount >>
  /\ UNCHANGED progVars

(* --------------------------------------------------------------- signals *)

\* a signal whose disposition terminates the process (SIGKILL, or SIGTERM and
\* SIGHUP, for which the program installs no handler): no Python code runs
Kill ==
  /\ ~Terminated
  /\ sigCount < MaxSignals
  /\ sigCount' = sigCount + 1
  /\ pc' = "killed"
  /\ exitVia' = "kill"
  /\ UNCHANGED << exc, fdOpen, size, old, new, r, buf, out, termAttrs, ttyLog,
                  handled, hdrWrites, setCalls >>
  /\ UNCHANGED << termSize, ttyBuf, ttyState, stdinBuf, stdinClosed, attrs0,
                  stdinSent, delivered, stdinFirst >>

\* SIGINT: the interpreter raises KeyboardInterrupt at the current line.
\* Before the try statement it ends the process; in the try block it runs the
\* finally clause and then ends the process; inside os.read the bare except
\* takes it as a read error; in the finally clause, before tcsetattr is
\* called, it ends the process
Interrupt ==
  /\ ~Terminated
  /\ sigCount < MaxSignals
  /\ sigCount' = sigCount + 1
  /\ \/ /\ pc \in {"L13", "L15", "L16", "L18", "L19"}
        /\ pc' = "aborted"
        /\ exc' = TRUE
        /\ exitVia' = "interrupt"
     \/ /\ pc \in {"L24", "L27", "L28", "L35", "L36"}
        /\ pc' = "L40"
        /\ exc' = TRUE
        /\ exitVia' = "interrupt"
     \/ /\ pc = "L28"
        /\ fd \in r
        /\ pc' = "L40"
        /\ exc' = FALSE
        /\ exitVia' = "interrupt"
     \/ /\ pc = "L40"
        /\ pc' = "aborted"
        /\ exc' = TRUE
        /\ exitVia' = "interrupt_cleanup"
  /\ UNCHANGED << fdOpen, size, old, new, r, buf, out, termAttrs, ttyLog,
                  handled, hdrWrites, setCalls >>
  /\ UNCHANGED << termSize, ttyBuf, ttyState, stdinBuf, stdinClosed, attrs0,
                  stdinSent, delivered, stdinFirst >>

(* -------------------------------------------------------- specifications *)

\* one step of the process
Proc ==
  \/ OpenTty
  \/ GetTerminalSize
  \/ WriteHeader
  \/ TcGetAttr
  \/ MakeNew
  \/ SetRaw
  \/ Select
  \/ SkipTty
  \/ ReadData
  \/ ReadEOF
  \/ ReadErr
  \/ WriteBuf
  \/ StdinBranch
  \/ LoopBack
  \/ Restore

\* one step of the terminal or of the parent
Env ==
  \/ TtyInput
  \/ TtyHangup
  \/ TtyFail
  \/ StdinInput
  \/ StdinClose

Next == Proc \/ Env

Spec == Init /\ [][Next]_vars

\* one signal delivered to the process
Signal ==
  \/ Kill
  \/ Interrupt

NextSig == Next \/ Signal

\* the runs in which signals are delivered as well
SpecSig == Init /\ [][NextSig]_vars

\* one system call other than the terminal read raises
Fail ==
  \/ OpenFail
  \/ GetTerminalSizeFail
  \/ WriteHeaderFail
  \/ TcGetAttrFail
  \/ SetRawFail
  \/ SelectFail
  \/ WriteBufFail
  \/ StdinWriteFail

NextFail == Next \/ Fail

\* the runs in which the system calls of the startup and of the loop can
\* raise as well; the restoring tcsetattr completes
SpecFail == Init /\ [][NextFail]_vars

\* every geometry and every flag word the startup can meet: the extremes of
\* both fields, and each flag set or clear
GeometriesWide == { <<W(0, 0), W(0, 0)>>,
                    <<W(0, 80), W(0, 24)>>,
                    <<W(0, Half - 1), W(0, 256)>>,
                    <<W(1, 258), W(772, 1286)>>,
                    <<W(Half - 1, Half - 1), W(0, 0)>>,
                    <<W(Half - 1, Half - 1), W(Half - 1, Half - 1)>> }

TermAttrsWide == { <<i, {"OPOST"}, {"CS8"}, l, 38400, 38400, "cc">> :
                     i \in SUBSET {"ICRNL", "IXON"},
                     l \in SUBSET {"ECHO", "ICANON", "ISIG", "IEXTEN"} }

InitStartup ==
  /\ pc = "L13"
  /\ exc = FALSE
  /\ fdOpen = FALSE
  /\ size = <<>>
  /\ old = <<>>
  /\ new = <<>>
  /\ r = {}
  /\ buf = <<>>
  /\ out = <<>>
  /\ termSize \in GeometriesWide
  /\ termAttrs \in TermAttrsWide
  /\ attrs0 = termAttrs
  /\ ttyBuf = <<>>
  /\ ttyState = "open"
  /\ stdinBuf = <<>>
  /\ stdinClosed = FALSE
  /\ exitVia = "none"
  /\ ttyLog = <<>>
  /\ stdinSent = <<>>
  /\ handled = <<>>
  /\ hdrWrites = 0
  /\ setCalls = <<>>
  /\ delivered = 0
  /\ stdinFirst = FALSE
  /\ sigCount = 0

\* one step of the startup, lines 13 - 24
NextStartup ==
  \/ OpenTty
  \/ GetTerminalSize
  \/ WriteHeader
  \/ TcGetAttr
  \/ MakeNew
  \/ SetRaw

\* the startup alone, up to the first wait, over the wide inputs
SpecStartup == InitStartup /\ [][NextStartup]_vars

\* the process is scheduled: it takes its next step when it has one
FairSpec == Spec /\ WF_vars(Proc)


(* ------------------------------------------------ vocabulary of the claims *)

\* the lines of the while loop
InLoop == pc \in {"L27", "L28", "L35", "L36"}

\* the 8-byte geometry record of the terminal
Header == Pack(termSize)

\* the bytes written after the first write
Payload == IF out = <<>> THEN <<>> ELSE Flatten(Tail(out))

\* the loop was left by break
LoopExits == {"stdin", "eof", "readerr"}

\* the bytes standard input can carry
StdinBytes == UNION { {b[i] : i \in 1..Len(b)} : b \in StdinBursts }

(* -------------------------------------------------------------------- C1 *)

\* C1: when the loop was left by any of its three breaks (standard input
\* readable, zero-length terminal read, terminal read error) the process ends
\* only after tcsetattr(old) has run as its last attribute call, and the
\* attributes of the terminal then equal the ones tcgetattr captured.
C1_RestoredOnEveryLoopExit ==
  (Terminated /\ exitVia \in LoopExits) =>
     /\ pc = "done"
     /\ old = attrs0
     /\ setCalls = <<new, old>>
     /\ termAttrs = old

C1_Witness ==
  /\ pc = "done"
  /\ exitVia = "eof"
  /\ new # old
  /\ termAttrs = old

(* -------------------------------------------------------------------- C2 *)

\* C2: at process end the bytes after the header are the terminal bytes read,
\* followed by exactly one 0x00 if the loop was left through the standard
\* input branch and by nothing if it was left on a zero-length read or a read
\* error.
C2_NulIffStdinExit ==
  (Terminated /\ exitVia \in LoopExits) =>
     /\ out # <<>>
     /\ Payload = ttyLog \o (IF exitVia = "stdin" THEN <<NUL>> ELSE <<>>)

C2_Witness ==
  /\ pc = "done"
  /\ exitVia = "readerr"
  /\ STDIN \in r
  /\ ttyLog # <<>>
  /\ Payload = ttyLog

(* -------------------------------------------------------------------- C3 *)

\* the writes after the header and before the termination byte
DataWrites ==
  IF Len(out) < 2 THEN <<>>
  ELSE IF exitVia = "stdin" THEN SubSeq(out, 2, Len(out) - 1)
  ELSE Tail(out)

\* C3: the data writes, with the buffer read and not yet written, are the
\* bytes read from the terminal in the order read, and every data write
\* carries between 1 and 64 bytes.
C3_RelayExact ==
  /\ Flatten(DataWrites) \o (IF pc = "L35" THEN buf ELSE <<>>) = ttyLog
  /\ \A i \in 1..Len(DataWrites) :
        Len(DataWrites[i]) >= 1 /\ Len(DataWrites[i]) <= ReadMax

C3_Witness ==
  /\ Len(DataWrites) >= 3
  /\ Len(DataWrites[1]) = ReadMax
  /\ Len(ttyLog) > ReadMax + 1
  /\ pc = "L36"

(* -------------------------------------------------------------------- C4 *)

\* the handling of a wake-up is over
WakeupOver == pc \in {"L27", "L40", "done", "aborted"}

\* C4 as stated: a wake-up that reports both descriptors runs the terminal
\* branch and then the standard input branch, whatever the read returns.
C4_Original ==
  (WakeupOver /\ r = {STDIN, fd}) => handled = <<"tty", "stdin">>

\* C4 amended: a wake-up that reports both descriptors runs the terminal
\* branch first; when its read returns data the standard input branch runs
\* next, in the same wake-up; when the read returns zero bytes or raises, the
\* loop ends there and the standard input branch does not run.
C4_BothHandledWhenDataRead ==
  (WakeupOver /\ r = {STDIN, fd}) =>
     /\ pc # "L27"
     /\ IF exitVia \in {"eof", "readerr"}
        THEN handled = <<"tty">> /\ Payload = ttyLog
        ELSE handled = <<"tty", "stdin">> /\ Payload = ttyLog \o <<NUL>>

C4_Witness ==
  /\ pc = "done"
  /\ r = {STDIN, fd}
  /\ handled = <<"tty", "stdin">>
  /\ out[Len(out)] = <<NUL>>
  /\ Len(out) >= 3


(* -------------------------------------------------------------------- C5 *)

\* standard output ends with one 0x00 write that follows the relayed bytes
TrailingNul ==
  /\ Len(out) >= 2
  /\ out[Len(out)] = <<NUL>>
  /\ Payload = ttyLog \o <<NUL>>

\* C5 as stated: if standard input became ready while the loop was running
\* and the terminal had neither reached end-of-stream nor failed, the output
\* of the finished process ends with the single 0x00 byte.
C5_Original ==
  (pc = "done" /\ stdinFirst) => TrailingNul

\* C5 amended: if a wake-up reports standard input readable and the terminal
\* branch of that wake-up does not end the loop (the terminal is not reported
\* readable, or its read returns data), then the process terminates, and from
\* then on standard output ends with exactly one 0x00 byte that follows every
\* terminal byte relayed.
C5_NulAfterStdinWakeup ==
  (pc = "L36" /\ STDIN \in r) ~> [](pc = "done" /\ TrailingNul)

C5_Witness ==
  /\ pc = "done"
  /\ exitVia = "stdin"
  /\ stdinFirst
  /\ TrailingNul
  /\ ttyLog # <<>>
  /\ ttyState = "open"

(* -------------------------------------------------------------------- C6 *)

\* C6: no write precedes the header write; once the geometry has been queried
\* and the header line has run, the first write on standard output is the
\* 8-byte geometry record, and the header has been written exactly once.
C6_HeaderFirstOnce ==
  /\ hdrWrites = (IF pc \in {"L13", "L15", "L16"} THEN 0 ELSE 1)
  /\ IF hdrWrites = 0
     THEN out = <<>>
     ELSE /\ out[1] = Header
          /\ Len(out[1]) = 8

C6_Witness ==
  /\ pc = "done"
  /\ Len(out) >= 3
  /\ out[1] = Header
  /\ hdrWrites = 1
  /\ exitVia = "stdin"

(* -------------------------------------------------------------------- C7 *)

\* raw mode has been applied
RawAcquired == setCalls # <<>> /\ setCalls[1] = new

\* C7 as stated: whenever the process has ended after acquiring raw mode, by
\* a signal or otherwise, the terminal has its original attributes.
C7_Original ==
  (Terminated /\ RawAcquired) => termAttrs = old

\* C7 amended: when the process has ended after acquiring raw mode and the
\* finally clause ran to its end (normal exit, read error, end-of-stream, or
\* an exception raised in the try block, the KeyboardInterrupt of SIGINT
\* included), the terminal has its original attributes; a signal that ends
\* the process without running Python code, or a KeyboardInterrupt raised in
\* the finally clause before tcsetattr is called, is not covered.
C7_RestoredUnlessKilled ==
  (Terminated /\ RawAcquired /\ exitVia \notin {"kill", "interrupt_cleanup"}) =>
     /\ termAttrs = old
     /\ setCalls = <<new, old>>

C7_Witness ==
  /\ pc = "aborted"
  /\ exitVia = "interrupt"
  /\ RawAcquired
  /\ new # old
  /\ termAttrs = old

(* -------------------------------------------------------------------- C8 *)

\* C8: once the process is in its loop and the terminal has been closed
\* (hung up or failed) or standard input has been closed, the process
\* eventually terminates.
C8_CloseTerminates ==
  (InLoop /\ (ttyState # "open" \/ stdinClosed)) ~> Terminated

C8_Witness ==
  /\ pc = "done"
  /\ exitVia = "eof"
  /\ r = {fd}
  /\ ~stdinClosed
  /\ stdinBuf = <<>>

(* -------------------------------------------------------------------- C9 *)

\* C9: every byte the parent wrote to standard input is still pending on it,
\* and no write after the header carries a byte of standard input.
C9_StdinNeverRead ==
  /\ stdinBuf = stdinSent
  /\ \A i \in 2..Len(out) : \A j \in 1..Len(out[i]) : out[i][j] \notin StdinBytes

C9_Witness ==
  /\ pc = "done"
  /\ exitVia = "stdin"
  /\ stdinBuf # <<>>
  /\ stdinBuf = stdinSent

(* ------------------------------------------------------------------- C10 *)

\* C10: the step that ends the loop on a terminal read error has the effect
\* of the step that ends it on a zero-length read: control goes to the
\* finally clause with no exception propagating, nothing is written, nothing
\* is read and the terminal is untouched; and the process then ends normally
\* with the output it had and the original attributes restored.
C10_ReadErrorLikeEof ==
  [][ /\ (pc = "L28" /\ exitVia' \in {"eof", "readerr"}) =>
           /\ pc' = "L40"
           /\ exc' = FALSE
           /\ out' = out
           /\ ttyLog' = ttyLog
           /\ ttyBuf' = ttyBuf
           /\ termAttrs' = termAttrs
      /\ (exitVia \in {"eof", "readerr"}) =>
           /\ pc' \in {"L40", "done"}
           /\ out' = out
           /\ exitVia' = exitVia
           /\ pc' = "done" => (termAttrs' = old /\ Payload' = ttyLog)
    ]_vars

C10_Witness ==
  /\ pc = "done"
  /\ exitVia = "readerr"
  /\ ttyLog # <<>>
  /\ r = {fd}
  /\ termAttrs = old
  /\ new # old


(* ------------------------------------------------------------------- C11 *)

\* C11: as long as the terminal has not been opened, and so when the open
\* failed, nothing has been written to standard output, no attribute call has
\* been made and the terminal has the attributes it started with; the process
\* is then at the open call or has aborted.
C11_OpenFailureWritesNothing ==
  ~fdOpen =>
     /\ pc \in {"L13", "aborted"}
     /\ pc = "aborted" => (exc /\ exitVia = "startup")
     /\ out = <<>>
     /\ setCalls = <<>>
     /\ termAttrs = attrs0

C11_Witness ==
  /\ pc = "aborted"
  /\ ~fdOpen
  /\ exitVia = "startup"
  /\ out = <<>>
  /\ termAttrs = attrs0

(* ------------------------------------------------------------------- C12 *)

\* the completed tcsetattr calls that applied the captured attributes (the
\* raw attributes differ from them in every run drawn here)
RestoreCalls == Cardinality({ i \in 1..Len(setCalls) : setCalls[i] = old })

\* C12 as stated: whenever the process has ended, the attributes have been
\* restored exactly once and the program has closed the descriptor.
C12_Original ==
  Terminated => (RestoreCalls = 1 /\ ~fdOpen)

\* C12 amended: when the process has ended after entering the try statement
\* (normal exit, read error, end-of-stream or an exception raised in the try
\* block) the attributes have been restored exactly once, by the last
\* attribute call; when it has ended on a startup failure no attribute call
\* was made; and the program has never closed the descriptor it opened: the
\* descriptor is open until the process exits.
C12_RestoredOnceNeverClosed ==
  Terminated =>
     /\ exitVia = "startup" => setCalls = <<>>
     /\ exitVia # "startup" =>
          /\ RestoreCalls = 1
          /\ setCalls[Len(setCalls)] = old
          /\ termAttrs = old
          /\ fdOpen
     /\ size # <<>> => fdOpen

C12_Witness ==
  /\ pc = "aborted"
  /\ exitVia = "loopfail"
  /\ fdOpen
  /\ RestoreCalls = 1
  /\ termAttrs = old
  /\ ttyLog # <<>>


(* ------------------------------------------------------------------- C13 *)

\* C13: once new is built, a flag is in its input word exactly when it is in
\* the captured input word and is not ICRNL, a flag is in its local word
\* exactly when it is in the captured local word and is none of ECHO, ICANON
\* and ISIG, its five other fields are the captured ones, the captured list
\* is still what the terminal had at the start, and the attributes applied at
\* line 24 are this list.
C13_RawIsOriginalMinusFourFlags ==
  new # <<>> =>
     /\ Len(new) = 7
     /\ \A f \in {"ICRNL", "IXON"} :
           f \in new[1] <=> (f \in old[1] /\ f # "ICRNL")
     /\ \A f \in {"ECHO", "ICANON", "ISIG", "IEXTEN"} :
           f \in new[4] <=> (f \in old[4] /\ f \notin {"ECHO", "ICANON", "ISIG"})
     /\ \A i \in {2, 3, 5, 6, 7} : new[i] = old[i]
     /\ old = attrs0
     /\ setCalls # <<>> => (setCalls = <<new>> /\ termAttrs = new)

C13_Witness ==
  /\ pc = "L27"
  /\ old[1] = {"ICRNL", "IXON"}
  /\ old[4] = {"ECHO", "ICANON", "ISIG", "IEXTEN"}
  /\ termAttrs[1] = {"IXON"}
  /\ termAttrs[4] = {"IEXTEN"}

(* ------------------------------------------------------------------- C14 *)

\* the number four bytes spell when the first is the least significant
FromLE(b) == W(b[3] + 256 * b[4], b[1] + 256 * b[2])

\* C14: the first write is 8 bytes, each in 0..255, of which the first four
\* spell the columns of the terminal and the last four its lines, least
\* significant byte first.
C14_HeaderIsLittleEndianGeometry ==
  out # <<>> =>
     /\ Len(out[1]) = 8
     /\ \A i \in 1..8 : out[1][i] \in 0..255
     /\ FromLE(SubSeq(out[1], 1, 4)) = termSize[1]
     /\ FromLE(SubSeq(out[1], 5, 8)) = termSize[2]

C14_Witness ==
  /\ out = << <<255, 255, 255, 255, 255, 255, 255, 255>> >>
  /\ termSize = <<W(Half - 1, Half - 1), W(Half - 1, Half - 1)>>

(* ------------------------------------------------------------------- C15 *)

\* C15: an attribute call is made only after the geometry was captured and
\* the header written; between the capture and the raw-mode call nothing is
\* waited for or read; and whenever the process is in its loop, at the wait
\* or at a terminal read, the one attribute call made so far is the raw-mode
\* call and the terminal has the raw attributes.
C15_RawBeforeLoop ==
  /\ setCalls # <<>> => (size = termSize /\ hdrWrites = 1)
  /\ pc \in {"L16", "L18", "L19", "L24"} =>
        (size = termSize /\ setCalls = <<>> /\ r = {} /\ ttyLog = <<>>)
  /\ InLoop => (setCalls = <<new>> /\ termAttrs = new /\ new = RawOf(attrs0))
  /\ (r # {} \/ ttyLog # <<>>) => RawAcquired

C15_Witness ==
  /\ pc = "L28"
  /\ fd \in r
  /\ ttyLog # <<>>
  /\ ttyBuf # <<>>
  /\ termAttrs = new
  /\ new # old


(* ------------------------------------------------------------------- C16 *)

\* C16: when the process has ended before new was built, on a failure of a
\* startup step before the try statement, no attribute-setting call was made
\* and the terminal has the attributes it started with; when the raw-mode
\* call did not complete, control goes to the finally clause with no
\* attribute call completed, and the process then ends with tcsetattr(old) as
\* its one completed attribute call.
C16_StartupFailures ==
  /\ (Terminated /\ new = <<>>) =>
        /\ pc = "aborted"
        /\ exc
        /\ exitVia = "startup"
        /\ setCalls = <<>>
        /\ termAttrs = attrs0
  /\ (new # <<>> /\ ~RawAcquired /\ pc \notin {"L24", "L40"}) =>
        /\ pc = "aborted"
        /\ exc
        /\ exitVia = "rawfail"
        /\ old = attrs0
        /\ setCalls = <<old>>
        /\ termAttrs = attrs0
        /\ out = <<Header>>
  /\ (pc = "L40" /\ ~RawAcquired) =>
        /\ exc
        /\ exitVia = "rawfail"
        /\ setCalls = <<>>
        /\ termAttrs = attrs0

C16_Witness ==
  /\ pc = "aborted"
  /\ exitVia = "rawfail"
  /\ setCalls = <<old>>
  /\ new # old
  /\ termAttrs = old

(* ------------------------------------------------------------------- C17 *)

\* C17: the step in which select or a write of the loop raises writes nothing
\* and leaves the loop for the finally clause with the exception propagating;
\* from then on nothing is written, the exception stays, and the process ends
\* aborted, after tcsetattr(old) has restored the attributes.
C17_LoopErrorsAreFatalAfterRestore ==
  [][ /\ (exitVia # "loopfail" /\ exitVia' = "loopfail") =>
           /\ pc \in {"L27", "L35", "L36"}
           /\ pc' = "L40"
           /\ exc'
           /\ out' = out
           /\ termAttrs' = termAttrs
      /\ exitVia = "loopfail" =>
           /\ exitVia' = "loopfail"
           /\ exc'
           /\ out' = out
           /\ pc' \in {"L40", "aborted"}
           /\ pc' = "aborted" => (termAttrs' = old /\ setCalls' = <<new, old>>)
    ]_vars

C17_Witness ==
  /\ pc = "aborted"
  /\ exitVia = "loopfail"
  /\ r = {STDIN}
  /\ out = <<Header>>
  /\ termAttrs = old
  /\ new # old

(* ------------------------------------------------------------------- C18 *)

\* the terminal reads since the last select
ReadsThisWakeup == Cardinality({ i \in 1..Len(handled) : handled[i] = "tty" })

\* C18: whenever the process is at the readiness wait, everything read from
\* the terminal has been written: standard output holds the header followed
\* by the bytes read so far; and no wake-up reads the terminal twice.
C18_NothingHeldAcrossIterations ==
  /\ pc = "L27" => Flatten(out) = Header \o ttyLog
  /\ ReadsThisWakeup <= 1

C18_Witness ==
  /\ pc = "L27"
  /\ Len(out) >= 3
  /\ ttyBuf # <<>>
  /\ Flatten(out) = Header \o ttyLog

====
